---- MODULE Spec2Model ----
(***************************************************************************)
(* The EANet notebook (examples/vision/ipynb/eanet.ipynb) as a state       *)
(* machine.  The notebook is a set of functions over tensors; a state is   *)
(* the last call made in the session (call) and what it returned (ret),    *)
(* the number of training steps model.fit has made on the model built      *)
(* (trained) and the random draws of its latest forward pass (pass).       *)
(* Tensors are modelled by their shapes (batch axis included, with a       *)
(* concrete batch size), patch extraction also by the pixels it moves, the *)
(* attention map also by its values (float32), and dropout by the keep     *)
(* masks it draws.                                                         *)
(***************************************************************************)
EXTENDS Integers, Sequences, FiniteSets, TLC

VARIABLES call, ret, trained, pass

vars == <<call, ret, trained, pass>>

(***************************************************************************)
(* Bounds of the model.                                                    *)
(***************************************************************************)
MaxBatch == 2
MaxPatches == 2
MaxDim == 6
MaxHeads == 3
MaxCoef == 2
MaxImage == 4
MaxChannels == 2
MaxBlocks == 2
MaxMemory == 2
MaxEntries == 4
MaxMaskElements == 4
MaxSteps == 2

(***************************************************************************)
(* Tensor shapes and the framework's shape rules.                          *)
(***************************************************************************)
RECURSIVE Prod(_)
Prod(s) == IF s = <<>> THEN 1 ELSE Head(s) * Prod(Tail(s))

\* A tensor (ok, with its shape) or the error an operation raised.
Tensor(s) == [ok |-> TRUE, shape |-> s, error |-> "none"]

Raise(e) == [ok |-> FALSE, shape |-> <<>>, error |-> e]

\* layers.Dense(units): maps the last axis to units; units < 0 is refused.
Dense(units, s) ==
  IF units < 0 \/ Len(s) < 2 THEN Raise("ValueError")
  ELSE Tensor([i \in 1..Len(s) |-> IF i = Len(s) THEN units ELSE s[i]])

\* tf.reshape(x, shape): at most one -1, inferred from the element count;
\* the element count is preserved or the call fails.
Reshape(s, target) ==
  LET holes == {i \in 1..Len(target) : target[i] = -1}
      known == Prod([i \in 1..Len(target) |-> IF target[i] = -1 THEN 1 ELSE target[i]])
  IN IF Cardinality(holes) > 1 THEN Raise("InvalidArgumentError")
     ELSE IF holes = {}
       THEN IF known = Prod(s) THEN Tensor(target) ELSE Raise("InvalidArgumentError")
     ELSE IF known = 0 \/ Prod(s) % known # 0 THEN Raise("InvalidArgumentError")
     ELSE Tensor([i \in 1..Len(target) |->
                    IF target[i] = -1 THEN Prod(s) \div known ELSE target[i]])

\* tf.transpose(x, perm): output axis i is input axis perm[i] (0-based in
\* the source, 1-based here).
Transpose(s, perm) ==
  IF Len(perm) # Len(s) THEN Raise("InvalidArgumentError")
  ELSE Tensor([i \in 1..Len(s) |-> s[perm[i] + 1]])

\* Element-wise addition with broadcasting (layers.add and the + of tensors):
\* trailing axes are aligned, and two sizes agree when equal or one is 1.
Broadcast(a, b) ==
  LET n == IF Len(a) > Len(b) THEN Len(a) ELSE Len(b)
      pa == [i \in 1..n |-> IF i > n - Len(a) THEN a[i - (n - Len(a))] ELSE 1]
      pb == [i \in 1..n |-> IF i > n - Len(b) THEN b[i - (n - Len(b))] ELSE 1]
  IN IF \A i \in 1..n : pa[i] = pb[i] \/ pa[i] = 1 \/ pb[i] = 1
     THEN Tensor([i \in 1..n |-> IF pa[i] = 1 THEN pb[i] ELSE pa[i]])
     ELSE Raise("ValueError")

(***************************************************************************)
(* A straight-line sequence of layer calls.  A step is                     *)
(* [op, arg, rate]; Apply gives the tensor it returns.  Run applies the    *)
(* steps in order and stops at the first one that fails; its trace holds   *)
(* one entry per step that was reached (the layer object exists as soon as *)
(* the step is reached).                                                   *)
(***************************************************************************)
Step(op, arg, rate) == [op |-> op, arg |-> arg, rate |-> rate]

Apply(st, s) ==
  CASE st.op = "Dense" -> Dense(st.arg[1], s)
    [] st.op = "reshape" -> Reshape(s, st.arg)
    [] st.op = "transpose" -> Transpose(s, st.arg)
    [] OTHER -> Tensor(s)

RECURSIVE RunFrom(_, _, _, _)
RunFrom(steps, i, s, trace) ==
  IF i > Len(steps) THEN [ok |-> TRUE, error |-> "none", out |-> s, trace |-> trace]
  ELSE LET t == Apply(steps[i], s)
           entry == [op |-> steps[i].op, arg |-> steps[i].arg, rate |-> steps[i].rate,
                     ok |-> t.ok, in |-> s, shape |-> t.shape]
       IN IF t.ok THEN RunFrom(steps, i + 1, t.shape, Append(trace, entry))
          ELSE [ok |-> FALSE, error |-> t.error, out |-> <<>>,
                trace |-> Append(trace, entry)]

Run(steps, s) == RunFrom(steps, 1, s, <<>>)

LayerOps == {"Dense", "Softmax", "Dropout", "LayerNormalization", "MultiHeadAttention"}

\* The layer objects a run created, in order.
RECURSIVE LayersOf(_)
LayersOf(trace) ==
  IF trace = <<>> THEN <<>>
  ELSE (IF Head(trace).op \in LayerOps THEN <<Head(trace)>> ELSE <<>>) \o LayersOf(Tail(trace))

(***************************************************************************)
(* external_attention(x, dim, num_heads, dim_coefficient,                  *)
(*                    attention_dropout, projection_dropout)               *)
(***************************************************************************)
\* Faulty variant: M_v expands to (dim * dim_coefficient) // num_heads with the
\* caller's num_heads, as if num_heads had not been reassigned.
ExternalAttentionStepsWideMv(num_patch, dim, heads, dim_coefficient, attention_dropout, projection_dropout) ==
  << Step("Dense", <<dim * dim_coefficient>>, 0),
     Step("reshape", <<-1, num_patch, heads, (dim * dim_coefficient) \div heads>>, 0),
     Step("transpose", <<0, 2, 1, 3>>, 0),
     Step("Dense", <<dim \div dim_coefficient>>, 0),
     Step("Softmax", <<2>>, 0),
     Step("renormalize", <<-1>>, 0),
     Step("Dropout", <<>>, attention_dropout),
     Step("Dense", <<(dim * dim_coefficient) \div (heads \div dim_coefficient)>>, 0),
     Step("transpose", <<0, 2, 1, 3>>, 0),
     Step("reshape", <<-1, num_patch, dim * dim_coefficient>>, 0),
     Step("Dense", <<dim>>, 0),
     Step("Dropout", <<>>, projection_dropout) >>

\* The statements after the assertion, with num_heads already multiplied by
\* dim_coefficient (heads).
ExternalAttentionSteps(num_patch, dim, heads, dim_coefficient, attention_dropout, projection_dropout) ==
  << Step("Dense", <<dim * dim_coefficient>>, 0),
     Step("reshape", <<-1, num_patch, heads, (dim * dim_coefficient) \div heads>>, 0),
     Step("transpose", <<0, 2, 1, 3>>, 0),
     Step("Dense", <<dim \div dim_coefficient>>, 0),
     Step("Softmax", <<2>>, 0),
     Step("renormalize", <<-1>>, 0),
     Step("Dropout", <<>>, attention_dropout),
     Step("Dense", <<(dim * dim_coefficient) \div heads>>, 0),
     Step("transpose", <<0, 2, 1, 3>>, 0),
     Step("reshape", <<-1, num_patch, dim * dim_coefficient>>, 0),
     Step("Dense", <<dim>>, 0),
     Step("Dropout", <<>>, projection_dropout) >>

\* _, num_patch, channel = x.shape
Unpacks3(x) == Len(x) = 3

\* Faulty variant: the assertion is missing.
AssertDivisibleOff(dim, num_heads) == TRUE

\* assert dim % num_heads == 0
AssertDivisible(dim, num_heads) == dim % num_heads = 0

\* Faulty variant: num_heads is not multiplied by dim_coefficient.
external_attention_heads_kept(x, dim, num_heads, dim_coefficient, attention_dropout, projection_dropout) ==
  LET num_patch == x[2]
  IN IF ~Unpacks3(x)
     THEN [ok |-> FALSE, error |-> "ValueError", out |-> <<>>, trace |-> <<>>]
     ELSE IF ~AssertDivisible(dim, num_heads)
     THEN [ok |-> FALSE, error |-> "AssertionError", out |-> <<>>, trace |-> <<>>]
     ELSE Run(ExternalAttentionSteps(num_patch, dim, num_heads,
                                     dim_coefficient, attention_dropout, projection_dropout), x)

external_attention(x, dim, num_heads, dim_coefficient, attention_dropout, projection_dropout) ==
  LET num_patch == x[2]
  IN IF ~Unpacks3(x)
     THEN [ok |-> FALSE, error |-> "ValueError", out |-> <<>>, trace |-> <<>>]
     ELSE IF ~AssertDivisible(dim, num_heads)
     THEN [ok |-> FALSE, error |-> "AssertionError", out |-> <<>>, trace |-> <<>>]
     ELSE Run(ExternalAttentionSteps(num_patch, dim, num_heads * dim_coefficient,
                                     dim_coefficient, attention_dropout, projection_dropout), x)

(***************************************************************************)
(* mlp(x, embedding_dim, mlp_dim, drop_rate=0.2)                           *)
(***************************************************************************)
\* Dropout rates are in percent.
MlpDropRate == 20

MlpSteps(embedding_dim, mlp_dim, drop_rate) ==
  << Step("Dense", <<mlp_dim>>, 0),
     Step("Dropout", <<>>, drop_rate),
     Step("Dense", <<embedding_dim>>, 0),
     Step("Dropout", <<>>, drop_rate) >>

mlp(x, embedding_dim, mlp_dim, drop_rate) == Run(MlpSteps(embedding_dim, mlp_dim, drop_rate), x)

(***************************************************************************)
(* transformer_encoder(x, embedding_dim, mlp_dim, num_heads,               *)
(*     dim_coefficient, attention_dropout, projection_dropout,             *)
(*     attention_type)                                                     *)
(***************************************************************************)
\* layers.MultiHeadAttention(num_heads, key_dim=embedding_dim, dropout)(x, x):
\* one layer, whose output has the shape of its query; it has no
\* divisibility requirement.
\* Faulty variant: the heads are concatenated and not projected back.
SelfAttentionStepsConcat(num_heads, embedding_dim, attention_dropout) ==
  << Step("MultiHeadAttention", <<num_heads, embedding_dim>>, attention_dropout),
     Step("Dense", <<num_heads * embedding_dim>>, 0) >>

SelfAttentionSteps(num_heads, embedding_dim, attention_dropout) ==
  << Step("MultiHeadAttention", <<num_heads, embedding_dim>>, attention_dropout) >>

\* Faulty variant: an else branch rejects any other attention_type.
AttentionBranchStrict(x, embedding_dim, num_heads, dim_coefficient, attention_dropout, projection_dropout, attention_type) ==
  IF attention_type = "external_attention"
  THEN external_attention(x, embedding_dim, num_heads, dim_coefficient,
                          attention_dropout, projection_dropout)
  ELSE IF attention_type = "self_attention"
  THEN Run(SelfAttentionSteps(num_heads, embedding_dim, attention_dropout), x)
  ELSE [ok |-> FALSE, error |-> "ValueError", out |-> <<>>, trace |-> <<>>]

\* The if / elif of transformer_encoder; there is no else branch.
AttentionBranch(x, embedding_dim, num_heads, dim_coefficient, attention_dropout, projection_dropout, attention_type) ==
  IF attention_type = "external_attention"
  THEN external_attention(x, embedding_dim, num_heads, dim_coefficient,
                          attention_dropout, projection_dropout)
  ELSE IF attention_type = "self_attention"
  THEN Run(SelfAttentionSteps(num_heads, embedding_dim, attention_dropout), x)
  ELSE Run(<<>>, x)

\* One trace entry for a call that is not part of a Run.
Entry(op, arg, in, t) ==
  [op |-> op, arg |-> arg, rate |-> 0, ok |-> t.ok, in |-> in, shape |-> t.shape]

Failure(e, trace) == [ok |-> FALSE, error |-> e, out |-> <<>>, trace |-> trace]

\* Lines 332-336, m being what mlp returned for the input residual_2.
EncoderAfterMlp(t1, residual_2, m) ==
  LET norm2 == <<Entry("LayerNormalization", <<>>, residual_2, Tensor(residual_2))>>
      add2 == Broadcast(m.out, residual_2)
      t2 == t1 \o norm2 \o m.trace \o <<Entry("add", residual_2, m.out, add2)>>
  IN IF ~m.ok THEN Failure(m.error, t1 \o norm2 \o m.trace)
     ELSE IF ~add2.ok THEN Failure(add2.error, t2)
     ELSE [ok |-> TRUE, error |-> "none", out |-> add2.shape, trace |-> t2]

\* Lines 331-336, att being what the attention branch returned.
EncoderAfterAttention(x, embedding_dim, mlp_dim, att) ==
  LET residual_1 == x
      norm1 == <<Entry("LayerNormalization", <<>>, x, Tensor(x))>>
      add1 == Broadcast(att.out, residual_1)
      t1 == norm1 \o att.trace \o <<Entry("add", residual_1, att.out, add1)>>
  IN IF ~att.ok THEN Failure(att.error, norm1 \o att.trace)
     ELSE IF ~add1.ok THEN Failure(add1.error, t1)
     ELSE CHOOSE r \in
            {EncoderAfterMlp(t1, residual_2, mlp(residual_2, embedding_dim, mlp_dim, MlpDropRate)) :
               residual_2 \in {add1.shape}} : TRUE

transformer_encoder(x, embedding_dim, mlp_dim, num_heads, dim_coefficient, attention_dropout, projection_dropout, attention_type) ==
  CHOOSE r \in
    {EncoderAfterAttention(x, embedding_dim, mlp_dim, att) :
       att \in {AttentionBranch(x, embedding_dim, num_heads, dim_coefficient,
                                attention_dropout, projection_dropout, attention_type)}} : TRUE

(***************************************************************************)
(* PatchExtract and PatchEmbedding.  A tensor with contents is             *)
(* [shape, data], data being its elements in row-major order.              *)
(***************************************************************************)
\* tf.image.extract_patches(sizes = strides = patch_size, padding "VALID"):
\* the number of patches along an axis of the given size.
ValidCount(size, patch_size) ==
  IF size < patch_size THEN 0 ELSE (size - patch_size) \div patch_size + 1

ExtractPatchesShape(s, patch_size) ==
  <<s[1], ValidCount(s[2], patch_size), ValidCount(s[3], patch_size),
    patch_size * patch_size * s[4]>>

\* Element (b, r, c, ch), 0-based, of an image tensor.
At(img, b, r, c, ch) ==
  img.data[((b * img.shape[2] + r) * img.shape[3] + c) * img.shape[4] + ch + 1]

\* The patches tensor: patch (i, j) holds the pixels of rows i*p .. i*p+p-1
\* and columns j*p .. j*p+p-1, flattened over (row, column, channel).
ExtractPatches(img, patch_size) ==
  LET ps == ExtractPatchesShape(img.shape, patch_size)
      C == img.shape[4]
      elem(q) ==
        LET ch == q % C
            dj == (q \div C) % patch_size
            di == (q \div (C * patch_size)) % patch_size
            j == (q \div ps[4]) % ps[3]
            i == (q \div (ps[4] * ps[3])) % ps[2]
            b == q \div (ps[4] * ps[3] * ps[2])
        IN At(img, b, i * patch_size + di, j * patch_size + dj, ch)
  IN [shape |-> ps, data |-> [q \in 1..Prod(ps) |-> elem(q - 1)]]

\* The target of the reshape: (batch_size, patch_num * patch_num, patch_dim)
\* with patch_num = patches.shape[1].
PatchExtractTarget(ps) == <<ps[1], ps[2] * ps[2], ps[4]>>

\* PatchExtract.call on shapes.
PatchExtractShape(s, patch_size) ==
  LET ps == ExtractPatchesShape(s, patch_size)
  IN Reshape(ps, PatchExtractTarget(ps))

\* PatchExtract.call.
PatchExtract(img, patch_size) ==
  LET patches == ExtractPatches(img, patch_size)
      t == PatchExtractShape(img.shape, patch_size)
  IN [ok |-> t.ok, error |-> t.error, shape |-> t.shape,
      data |-> IF t.ok THEN patches.data ELSE <<>>]

\* PatchEmbedding.call: proj(patch) + pos_embed(tf.range(0, num_patch)).
PatchEmbedding(s, num_patch, embed_dim) ==
  LET proj == Dense(embed_dim, s)
      pos == <<num_patch, embed_dim>>
      sum == Broadcast(proj.shape, pos)
  IN IF ~proj.ok THEN [ok |-> FALSE, error |-> proj.error, shape |-> <<>>,
                       proj |-> <<>>, pos |-> pos]
     ELSE [ok |-> sum.ok, error |-> sum.error, shape |-> sum.shape,
           proj |-> proj.shape, pos |-> pos]

(***************************************************************************)
(* get_model(attention_type), with the hyperparameters of the notebook's   *)
(* configuration cell passed as hp.                                        *)
(***************************************************************************)
ImageSize == 32
ImageChannels == 3
NumClasses == 100
NumTransformerBlocks == 8

\* Faulty variant: the image area divided by the patch area.
NumPatchesByArea(patch_size) == (ImageSize * ImageSize) \div (patch_size * patch_size)

\* num_patches = (input_shape[0] // patch_size) ** 2
NumPatches(patch_size) == (ImageSize \div patch_size) * (ImageSize \div patch_size)

\* The loop over the transformer blocks: the blocks built (the last one being
\* the one that failed, if any) and the tensor the loop ends with.
RECURSIVE BlocksFrom(_, _, _, _, _)
BlocksFrom(x, hp, attention_type, left, done) ==
  IF left = 0 THEN [ok |-> TRUE, error |-> "none", out |-> x, blocks |-> done]
  ELSE LET built == {transformer_encoder(x, hp.embedding_dim, hp.mlp_dim, hp.num_heads,
                                         hp.dim_coefficient, hp.attention_dropout,
                                         hp.projection_dropout, attention_type)}
           \* blk ranges over the one block just built
           rest == {IF blk.ok
                    THEN BlocksFrom(blk.out, hp, attention_type, left - 1, Append(done, blk))
                    ELSE [ok |-> FALSE, error |-> blk.error, out |-> <<>>,
                          blocks |-> Append(done, blk)] : blk \in built}
       IN CHOOSE r \in rest : TRUE

\* The part of get_model after PatchEmbedding returned emb: the blocks,
\* GlobalAvgPool1D and the classification layer.
ModelFrom(patches, emb, hp, attention_type) ==
  LET stacks == {BlocksFrom(emb.shape, hp, attention_type, hp.num_transformer_blocks, <<>>)}
      head(x) == Dense(NumClasses, <<x[1], x[3]>>)
  IN CHOOSE r \in
       {IF ~stack.ok
        THEN [ok |-> FALSE, error |-> stack.error, patches |-> patches.shape, emb |-> emb,
              blocks |-> stack.blocks, out |-> <<>>]
        ELSE [ok |-> head(stack.out).ok, error |-> head(stack.out).error,
              patches |-> patches.shape, emb |-> emb, blocks |-> stack.blocks,
              out |-> head(stack.out).shape] : stack \in stacks} : TRUE

get_model(batch, hp, attention_type) ==
  LET inputs == <<batch, ImageSize, ImageSize, ImageChannels>>
      augmented == inputs
      patches == PatchExtractShape(augmented, hp.patch_size)
      embedded == {PatchEmbedding(patches.shape, NumPatches(hp.patch_size), hp.embedding_dim)}
      none == [ok |-> FALSE, error |-> "none", shape |-> <<>>, proj |-> <<>>, pos |-> <<>>]
  IN IF ~patches.ok
     THEN [ok |-> FALSE, error |-> patches.error, patches |-> <<>>, emb |-> none,
           blocks |-> <<>>, out |-> <<>>]
     ELSE CHOOSE r \in
            {IF ~emb.ok
             THEN [ok |-> FALSE, error |-> emb.error, patches |-> patches.shape,
                   emb |-> emb, blocks |-> <<>>, out |-> <<>>]
             ELSE ModelFrom(patches, emb, hp, attention_type) : emb \in embedded} : TRUE

(***************************************************************************)
(* Exact arithmetic, on which the float32 operations below are defined:    *)
(* naturals as sequences of base-10000 digits, least significant first and *)
(* without leading zeros, and non-negative rationals as [num, den].        *)
(***************************************************************************)
Base == 10^4

RECURSIVE Big(_)
Big(n) == IF n = 0 THEN <<>> ELSE <<n % Base>> \o Big(n \div Base)

\* Digit i of a, 0 past its end.
Digit(a, i) == IF i <= Len(a) THEN a[i] ELSE 0

RECURSIVE AddFrom(_, _, _, _)
AddFrom(a, b, i, carry) ==
  IF i > Len(a) /\ i > Len(b) THEN (IF carry = 0 THEN <<>> ELSE <<carry>>)
  ELSE LET s == Digit(a, i) + Digit(b, i) + carry
       IN <<s % Base>> \o AddFrom(a, b, i + 1, s \div Base)

BigAdd(a, b) == AddFrom(a, b, 1, 0)

\* a times one digit d > 0, from digit i on.
RECURSIVE MulDigitFrom(_, _, _, _)
MulDigitFrom(a, d, i, carry) ==
  IF i > Len(a) THEN (IF carry = 0 THEN <<>> ELSE <<carry>>)
  ELSE LET s == a[i] * d + carry
       IN <<s % Base>> \o MulDigitFrom(a, d, i + 1, s \div Base)

\* a * d + acc * Base, for one digit d.
MulAdd(a, d, acc) ==
  LET shifted == IF acc = <<>> THEN <<>> ELSE <<0>> \o acc
  IN IF d = 0 THEN shifted ELSE BigAdd(MulDigitFrom(a, d, 1, 0), shifted)

RECURSIVE BigMulFrom(_, _, _)
BigMulFrom(a, b, j) ==
  IF j > Len(b) THEN <<>>
  ELSE CHOOSE r \in {MulAdd(a, b[j], acc) : acc \in {BigMulFrom(a, b, j + 1)}} : TRUE

BigMul(a, b) == IF a = <<>> THEN <<>> ELSE BigMulFrom(a, b, 1)

RECURSIVE BigLessFrom(_, _, _)
BigLessFrom(a, b, i) ==
  IF i = 0 THEN FALSE
  ELSE IF a[i] # b[i] THEN a[i] < b[i]
  ELSE BigLessFrom(a, b, i - 1)

BigLess(a, b) ==
  IF Len(a) # Len(b) THEN Len(a) < Len(b) ELSE BigLessFrom(a, b, Len(a))

Rat(n, d) == [num |-> Big(n), den |-> Big(d)]

\* Fractions over one denominator keep it.
RatAdd(p, q) ==
  IF p.den = q.den THEN [num |-> BigAdd(p.num, q.num), den |-> p.den]
  ELSE [num |-> BigAdd(BigMul(p.num, q.den), BigMul(q.num, p.den)),
        den |-> BigMul(p.den, q.den)]

RatDiv(p, q) == [num |-> BigMul(p.num, q.den), den |-> BigMul(p.den, q.num)]

RatLess(p, q) ==
  IF p.den = q.den THEN BigLess(p.num, q.num)
  ELSE BigLess(BigMul(p.num, q.den), BigMul(q.num, p.den))

RatEq(p, q) ==
  IF p.den = q.den THEN p.num = q.num
  ELSE BigMul(p.num, q.den) = BigMul(q.num, p.den)

RatLeq(p, q) == ~RatLess(q, p)

(***************************************************************************)
(* float32 (IEEE 754 binary32) values, kept as the rationals they are: an  *)
(* operation returns the float32 nearest to its exact result, ties to the  *)
(* even significand.  The values of the attention map stay far from the    *)
(* subnormal range and from overflow, which are left out.                  *)
(***************************************************************************)
BigLeq(a, b) == ~BigLess(b, a)

\* n / d * 2^e rewritten so that 2^23 <= n / d < 2^24.
RECURSIVE Normalize(_, _, _)
Normalize(n, d, e) ==
  IF BigLeq(BigMul(d, Big(2^24)), n)
  THEN IF BigLeq(BigMul(BigMul(d, Big(2^24)), Big(2^12)), n)
       THEN Normalize(n, BigMul(d, Big(2^12)), e + 12)
       ELSE Normalize(n, BigMul(d, Big(2)), e + 1)
  ELSE IF BigLess(n, BigMul(d, Big(2^23)))
  THEN IF BigLess(n, BigMul(d, Big(2^11)))
       THEN Normalize(BigMul(n, Big(2^12)), d, e - 12)
       ELSE Normalize(BigMul(n, Big(2)), d, e - 1)
  ELSE [n |-> n, d |-> d, e |-> e]

\* The integer part of n / d, q being its bits above bit.
RECURSIVE Quotient(_, _, _, _)
Quotient(n, d, q, bit) ==
  IF bit = 0 THEN q
  ELSE IF BigLeq(BigMul(d, Big(q + bit)), n) THEN Quotient(n, d, q + bit, bit \div 2)
  ELSE Quotient(n, d, q, bit \div 2)

\* Whether n / d, of integer part q, rounds to q + 1.
RoundsUp(n, d, q) ==
  IF BigMul(n, Big(2)) = BigMul(d, Big(2 * q + 1)) THEN q % 2 = 1
  ELSE BigLess(BigMul(d, Big(2 * q + 1)), BigMul(n, Big(2)))

RECURSIVE Pow2(_)
Pow2(k) ==
  IF k = 0 THEN Big(1)
  ELSE IF k >= 12 THEN BigMul(Pow2(k - 12), Big(2^12))
  ELSE BigMul(Pow2(k - 1), Big(2))

\* m * 2^e in lowest terms.
RECURSIVE Float(_, _)
Float(m, e) ==
  IF e < 0 /\ m % 2 = 0 THEN Float(m \div 2, e + 1)
  ELSE IF e < 0 THEN [num |-> Big(m), den |-> Pow2(0 - e)]
  ELSE [num |-> BigMul(Big(m), Pow2(e)), den |-> Big(1)]

RoundScaled(s) ==
  CHOOSE f \in {Float(IF RoundsUp(s.n, s.d, q) THEN q + 1 ELSE q, s.e) :
                  q \in {Quotient(s.n, s.d, 2^23, 2^22)}} : TRUE

\* The float32 nearest to the rational r >= 0.
Round(r) ==
  IF r.num = <<>> THEN Rat(0, 1)
  ELSE CHOOSE f \in {RoundScaled(s) : s \in {Normalize(r.num, r.den, 0)}} : TRUE

\* float32 +, / and the sum of a row, left to right.
FAdd(p, q) == Round(RatAdd(p, q))

FDiv(p, q) == Round(RatDiv(p, q))

RECURSIVE FSumFrom(_, _, _)
FSumFrom(row, i, acc) ==
  IF i > Len(row) THEN acc ELSE FSumFrom(row, i + 1, FAdd(acc, row[i]))

FSum(row) == IF Len(row) = 0 THEN Rat(0, 1) ELSE FSumFrom(row, 2, row[1])

(***************************************************************************)
(* The double normalization of external_attention, on the slice of the     *)
(* attention map of one sample and one head: attn[n][m], n the patch       *)
(* (axis 2) and m the memory unit (the last axis).  The input is           *)
(* e[n][m], the float32 value exp(attn[n][m] - max) that the softmax       *)
(* computes first, max being the largest logit of memory unit m over the   *)
(* patches: every column of e holds a 1.                                   *)
(***************************************************************************)
\* One column of the softmax: each exponential over their sum.
SoftmaxColumn(es) ==
  CHOOSE c \in {[n \in 1..Len(es) |-> FDiv(es[n], sum)] : sum \in {FSum(es)}} : TRUE

\* layers.Softmax(axis=2): over the patches, for each memory unit.
Softmax(e) ==
  CHOOSE r \in {[n \in 1..Len(e) |-> [m \in 1..Len(e[n]) |-> cols[m][n]]] :
                  cols \in {[m \in 1..Len(e[1]) |->
                               SoftmaxColumn([n \in 1..Len(e) |-> e[n][m]])]}} : TRUE

\* 1e-9
EpsInv == 1000000000

Eps == Round(Rat(1, EpsInv))

\* Faulty variant: the reduction misses the last memory unit.
ReduceSumShort(row) == FSum(SubSeq(row, 1, Len(row) - 1))

\* tf.reduce_sum(attn, axis=-1, keepdims=True), for one patch.
ReduceSum(row) == FSum(row)

\* Faulty variant: the operands of the division are swapped.
RenormalizeSwapped(a, sum) == FDiv(FAdd(Eps, sum), a)

\* attn / (1e-9 + sum), for one entry.
Renormalize(a, sum) == FDiv(a, FAdd(Eps, sum))

\* Line 248: every entry over 1e-9 plus the sum of its row.
Divide(soft, sums) ==
  [softmax |-> soft, sums |-> sums,
   attn |-> [n \in 1..Len(soft) |->
               [m \in 1..Len(soft[n]) |-> Renormalize(soft[n][m], sums[n])]]]

Renormalized(soft) ==
  CHOOSE r \in {Divide(soft, sums) :
                  sums \in {[n \in 1..Len(soft) |-> ReduceSum(soft[n])]}} : TRUE

\* Lines 246-248: the softmax, the sums and the division.
DoubleNormalize(e) == CHOOSE r \in {Renormalized(soft) : soft \in {Softmax(e)}} : TRUE

(***************************************************************************)
(* Dropout in training mode.  Rates and the uniform draws are in percent.  *)
(* A layer whose rate is 0 returns its input and draws nothing; another    *)
(* one draws one number per element, keeps the element when its draw is at *)
(* least the rate and scales it by 1 / (1 - rate).  The factor an element  *)
(* gets is [num, den]: 0 for a dropped element.                            *)
(***************************************************************************)
DropoutFactor(rate, u) ==
  IF u >= rate THEN [num |-> 100, den |-> 100 - rate] ELSE [num |-> 0, den |-> 1]

DropoutOps == {"Dropout", "MultiHeadAttention"}

\* The tensor a dropout layer masks: its input, and for MultiHeadAttention
\* the attention scores (batch, num_heads, N, N).
MaskShape(entry) ==
  IF entry.op = "MultiHeadAttention"
  THEN <<entry.in[1], entry.arg[1], entry.in[2], entry.in[2]>>
  ELSE entry.in

\* The dropout layers of a block, in the order they are applied: the rate
\* and the number of elements of each.
RECURSIVE DropoutLayers(_)
DropoutLayers(trace) ==
  IF trace = <<>> THEN <<>>
  ELSE (IF Head(trace).op \in DropoutOps
        THEN <<[rate |-> Head(trace).rate, size |-> Prod(MaskShape(Head(trace)))]>>
        ELSE <<>>)
          \o DropoutLayers(Tail(trace))

\* The dropout layers of the model get_model built: those of its blocks, in
\* the order of the blocks.
RECURSIVE ModelDropoutLayers(_)
ModelDropoutLayers(blocks) ==
  IF blocks = <<>> THEN <<>>
  ELSE DropoutLayers(Head(blocks).trace) \o ModelDropoutLayers(Tail(blocks))

\* The number of draws of one pass over the first k layers.
RECURSIVE DrawCount(_, _)
DrawCount(ls, k) ==
  IF k = 0 THEN 0
  ELSE DrawCount(ls, k - 1) + (IF ls[k].rate = 0 THEN 0 ELSE ls[k].size)

\* One forward pass in training mode: the factor each dropout layer applies
\* to each element of its input, given the draws u.  With the weights and
\* the input fixed the output of the block is a function of these factors.
TrainingPass(ls, u) ==
  [i \in 1..Len(ls) |->
     [j \in 1..ls[i].size |->
        IF ls[i].rate = 0 THEN [num |-> 1, den |-> 1]
        ELSE DropoutFactor(ls[i].rate, u[DrawCount(ls, i - 1) + j])]]

(***************************************************************************)
(* The session: a call is made from the idle session, and its tensors are  *)
(* dropped when it is over.                                                *)
(***************************************************************************)
Idle == [fn |-> "none"]

\* No forward pass made yet.
NoPass == [weights |-> 0, augment |-> <<>>, masks |-> <<>>]

Init ==
  /\ call = Idle
  /\ ret = Idle
  /\ trained = 0
  /\ pass = NoPass

\* The hyperparameter cell of the notebook.
EmbeddingDim == 64
MlpDim == 64
DimCoefficient == 4
NumHeads == 4

Batches == 1..MaxBatch
PatchCounts == 1..MaxPatches
Dims == (1..MaxDim) \cup {EmbeddingDim, EmbeddingDim + 1}
HeadCounts == (1..MaxHeads) \cup {NumHeads}
Coefficients == (1..MaxCoef) \cup {DimCoefficient}
Rates == {0, 20}
AttentionTypes == {"external_attention", "self_attention", "linear_attention"}

CallExternalAttention ==
  /\ call = Idle
  /\ trained' = 0
  /\ pass' = NoPass
  /\ \E b \in Batches, n \in PatchCounts, dim \in Dims, h \in HeadCounts,
        k \in Coefficients : \E c \in {dim, 1} :
    /\ call' = [fn |-> "external_attention", x |-> <<b, n, c>>, dim |-> dim,
                num_heads |-> h, dim_coefficient |-> k]
    /\ ret' = external_attention(<<b, n, c>>, dim, h, k, 0, 0)

CallTransformerEncoder ==
  /\ call = Idle
  /\ trained' = 0
  /\ pass' = NoPass
  /\ \E b \in Batches, n \in PatchCounts, dim \in Dims, h \in HeadCounts,
        k \in Coefficients, ad \in Rates, pd \in Rates, ty \in AttentionTypes :
     \E c \in {dim, 1}, md \in {1, MlpDim} :
    /\ call' = [fn |-> "transformer_encoder", x |-> <<b, n, c>>, embedding_dim |-> dim,
                mlp_dim |-> md, num_heads |-> h, dim_coefficient |-> k,
                attention_dropout |-> ad, projection_dropout |-> pd,
                attention_type |-> ty]
    /\ ret' = transformer_encoder(<<b, n, c>>, dim, md, h, k, ad, pd, ty)

\* An image whose every pixel holds its own (row-major) position: any image
\* is a relabelling of it.
LabelledImage(shape) == [shape |-> shape, data |-> [q \in 1..Prod(shape) |-> q]]

CallPatchExtract ==
  /\ call = Idle
  /\ trained' = 0
  /\ pass' = NoPass
  /\ \E b \in Batches, h \in 1..MaxImage, w \in 1..MaxImage, c \in 1..MaxChannels,
        ps \in 1..MaxImage :
    /\ call' = [fn |-> "PatchExtract", images |-> LabelledImage(<<b, h, w, c>>),
                patch_size |-> ps]
    /\ ret' = PatchExtract(LabelledImage(<<b, h, w, c>>), ps)

HyperParameters ==
  { [patch_size |-> ps, embedding_dim |-> d[1], mlp_dim |-> d[4], num_heads |-> d[2],
     dim_coefficient |-> d[3], attention_dropout |-> r[1], projection_dropout |-> r[2],
     num_transformer_blocks |-> nb] :
       ps \in 1..ImageSize,
       d \in {<<EmbeddingDim, NumHeads, DimCoefficient, MlpDim>>,
              <<EmbeddingDim + 1, NumHeads, DimCoefficient, MlpDim>>,
              <<6, 3, 2, MlpDim>>, <<1, 1, 1, 1>>},
       r \in Rates \X Rates,
       nb \in (1..MaxBlocks) \cup {NumTransformerBlocks} }

CallGetModel ==
  /\ call = Idle
  /\ trained' = 0
  /\ pass' = NoPass
  /\ \E b \in Batches, hp \in HyperParameters, ty \in AttentionTypes :
    /\ call' = [fn |-> "get_model", batch |-> b, hp |-> hp, attention_type |-> ty]
    /\ ret' = get_model(b, hp, ty)

\* float32 values of exp(logit - max): 1 for the largest logit, 3/4, 1/2, 1/512,
\* and 1125899 * 2^-50, just under 1e-9.
ExpValues == {Float(1, 0), Float(3, 0 - 2), Float(1, 0 - 1), Float(1, 0 - 9), Float(1125899, 0 - 50)}

HoldsMax(e, m) == \E n \in 1..Len(e) : e[n][m] = Float(1, 0)

CallDoubleNormalize ==
  /\ call = Idle
  /\ trained' = 0
  /\ pass' = NoPass
  /\ \E n \in PatchCounts, m \in 1..MaxMemory :
    /\ n * m <= MaxEntries
    /\ \E e \in [1..n -> [1..m -> ExpValues]] :
      /\ \A j \in 1..m : HoldsMax(e, j)
      /\ call' = [fn |-> "double_normalize", e |-> e]
      /\ ret' = DoubleNormalize(e)

\* The draws of tf.random.uniform, in percent.
UniformDraws == {10, 50}

\* The draws of the random layers of data_augmentation (flip, rotation,
\* contrast, zoom) for one image: the image is left as it is or changed.
AugmentDraws == {"same", "changed"}

\* One training step of model.fit on the model get_model returned: a forward
\* pass in training mode, which draws the augmentation of every image of the
\* batch and the masks of the dropout layers, and the update of the weights.
\* The pass is made with the weights the earlier steps left.
ForwardPass ==
  /\ call.fn = "get_model"
  /\ ret.ok
  /\ trained < MaxSteps
  /\ DrawCount(ModelDropoutLayers(ret.blocks), Len(ModelDropoutLayers(ret.blocks)))
        <= MaxMaskElements
  /\ \E a \in [1..call.batch -> AugmentDraws],
        u \in [1..DrawCount(ModelDropoutLayers(ret.blocks),
                            Len(ModelDropoutLayers(ret.blocks))) -> UniformDraws] :
       pass' = [weights |-> trained, augment |-> a,
                masks |-> TrainingPass(ModelDropoutLayers(ret.blocks), u)]
  /\ trained' = trained + 1
  /\ UNCHANGED <<call, ret>>

Finish ==
  /\ call # Idle
  /\ call' = Idle
  /\ ret' = Idle
  /\ trained' = 0
  /\ pass' = NoPass

Next ==
  \/ CallExternalAttention
  \/ CallTransformerEncoder
  \/ CallPatchExtract
  \/ CallGetModel
  \/ CallDoubleNormalize
  \/ ForwardPass
  \/ Finish

Spec == Init /\ [][Next]_vars

(***************************************************************************)
(* Properties of external_attention.                                       *)
(***************************************************************************)
IsEA == call.fn = "external_attention"

IsTE == call.fn = "transformer_encoder"

RECURSIVE OpsOf(_)
OpsOf(trace) == IF trace = <<>> THEN <<>> ELSE <<Head(trace).op>> \o OpsOf(Tail(trace))

\* C1: for every input (batch, N, d) with dim = d and d divisible by
\* num_heads (dim_coefficient dividing d or not), external_attention runs all
\* its twelve statements, each reshape keeps the batch size and the element
\* count, and the result has the shape of the input.
C1_ShapePreserved ==
  (IsEA /\ call.x[3] = call.dim /\ call.dim % call.num_heads = 0) =>
     /\ ret.ok
     /\ Len(ret.trace) = 12
     /\ \A i \in 1..Len(ret.trace) :
           ret.trace[i].op = "reshape" =>
              /\ ret.trace[i].ok
              /\ Prod(ret.trace[i].shape) = Prod(ret.trace[i].in)
              /\ ret.trace[i].shape[1] = call.x[1]
     /\ ret.out = call.x

C1_Witness ==
  /\ IsEA
  /\ call.x = <<2, 2, 6>> /\ call.dim = 6 /\ call.num_heads = 3 /\ call.dim_coefficient = 4
  /\ ret.ok /\ ret.out = <<2, 2, 6>>
  /\ ret.trace[2].shape = <<2, 2, 12, 2>>
  /\ ret.trace[4].shape = <<2, 12, 2, 1>>

\* C2: when dim is not divisible by num_heads the call ends with the
\* assertion's error before any layer is created and returns no tensor; when
\* it is divisible, the first projection layer is created and applied.
C2_AssertFailsFast ==
  IsEA =>
    IF call.dim % call.num_heads # 0
    THEN /\ ~ret.ok
         /\ ret.error = "AssertionError"
         /\ LayersOf(ret.trace) = <<>>
         /\ ret.trace = <<>>
         /\ ret.out = <<>>
    ELSE /\ ret.trace # <<>>
         /\ ret.trace[1].op = "Dense"
         /\ ret.trace[1].ok
         /\ ret.error # "AssertionError"

C2_Witness ==
  /\ IsEA
  /\ call.dim = 65 /\ call.num_heads = 4 /\ call.x[3] = 65
  /\ ~ret.ok /\ ret.error = "AssertionError" /\ ret.trace = <<>>

\* The eighth statement after the assertion is the Dense layer M_v.
Mv == ret.trace[8]

\* C8 as stated: M_v expands each head to width (d*k)/H with H the caller's
\* num_heads, on an attention map of H*k heads of width d/k.
C8_MvWidthAsStated ==
  (IsEA /\ ret.ok) =>
     /\ Mv.op = "Dense"
     /\ Mv.in[2] = call.num_heads * call.dim_coefficient
     /\ Mv.in[4] = call.dim \div call.dim_coefficient
     /\ Mv.shape[4] = (call.dim * call.dim_coefficient) \div call.num_heads

\* C8 amended: M_v expands each head to width (d*k)/(H*k) = d/H with H the
\* caller's num_heads, on an attention map of H*k heads of width d // k.
C8_MvWidth ==
  (IsEA /\ ret.ok) =>
     /\ Mv.op = "Dense"
     /\ Mv.in = <<call.x[1], call.num_heads * call.dim_coefficient, call.x[2],
                  call.dim \div call.dim_coefficient>>
     /\ Mv.shape[4] = (call.dim * call.dim_coefficient)
                         \div (call.num_heads * call.dim_coefficient)
     /\ Mv.shape[4] * call.num_heads = call.dim

C8_Witness ==
  /\ IsEA /\ ret.ok
  /\ call.dim = 64 /\ call.dim_coefficient = 4 /\ call.num_heads = 4
  /\ Mv.in[2] = 16 /\ Mv.in[4] = 16
  /\ Mv.shape[4] = 16

(***************************************************************************)
(* Properties of transformer_encoder.                                      *)
(***************************************************************************)
\* The block built from the arguments of the current call with another
\* attention_type.
Variant(ty) ==
  transformer_encoder(call.x, call.embedding_dim, call.mlp_dim, call.num_heads,
                      call.dim_coefficient, call.attention_dropout,
                      call.projection_dropout, ty)

\* C4 as stated: on an input (batch, N, embedding_dim) the self-attention
\* block and the external-attention block both return a tensor of the input
\* shape, or both fail.
C4_SameOutcomeAsStated ==
  (IsTE /\ call.attention_type = "self_attention" /\ call.x[3] = call.embedding_dim) =>
     LET ext == Variant("external_attention")
     IN \/ ret.ok /\ ext.ok /\ ret.out = call.x /\ ext.out = call.x
        \/ ~ret.ok /\ ~ext.ok

\* C4 amended: when embedding_dim is divisible by num_heads both blocks
\* return a tensor of the input shape; when it is not, the self-attention
\* block still returns a tensor of the input shape and the external-attention
\* block fails with the assertion's error.
C4_SameOutcome ==
  (IsTE /\ call.attention_type = "self_attention" /\ call.x[3] = call.embedding_dim) =>
     LET ext == Variant("external_attention")
     IN /\ ret.ok /\ ret.out = call.x
        /\ IF call.embedding_dim % call.num_heads = 0
           THEN ext.ok /\ ext.out = call.x
           ELSE ~ext.ok /\ ext.error = "AssertionError"

C4_Witness ==
  /\ IsTE /\ call.attention_type = "self_attention"
  /\ call.x = <<1, 2, 65>> /\ call.embedding_dim = 65 /\ call.num_heads = 4
  /\ ret.ok /\ ret.out = <<1, 2, 65>>
  /\ ~Variant("external_attention").ok

\* C10: with an attention_type that is neither of the two, the block raises
\* nothing and applies no attention layer: the first addition follows the
\* layer normalization directly and adds its output to the block's input, and
\* the block returns a tensor of the input shape.
C10_UnknownTypeAccepted ==
  (IsTE /\ call.attention_type \notin {"external_attention", "self_attention"}
        /\ call.x[3] = call.embedding_dim) =>
     /\ ret.ok
     /\ ret.error = "none"
     /\ OpsOf(ret.trace) = <<"LayerNormalization", "add", "LayerNormalization",
                             "Dense", "Dropout", "Dense", "Dropout", "add">>
     /\ ret.trace[2].in = ret.trace[1].shape
     /\ ret.trace[2].arg = call.x
     /\ ret.out = call.x

C10_Witness ==
  /\ IsTE /\ call.attention_type = "linear_attention"
  /\ call.x = <<2, 2, 64>> /\ call.embedding_dim = 64
  /\ ret.ok /\ ret.out = <<2, 2, 64>>
  /\ Len(ret.trace) = 8

(***************************************************************************)
(* Properties of PatchExtract and of get_model.                            *)
(***************************************************************************)
IsPE == call.fn = "PatchExtract"

IsGM == call.fn = "get_model"

\* The image of the given shape put back from a patch sequence t: pixel
\* (b, r, c, ch) is read from patch (r // p) * (W // p) + (c // p) of image b,
\* the patches being taken row-major over the patch grid, at offset
\* ((r % p) * p + (c % p)) * C + ch.
Reassemble(t, shape, p) ==
  LET W == shape[3]
      C == shape[4]
      elem(q) ==
        LET ch == q % C
            c == (q \div C) % W
            r == (q \div (C * W)) % shape[2]
            b == q \div (C * W * shape[2])
            patch == (r \div p) * (W \div p) + (c \div p)
            offset == ((r % p) * p + (c % p)) * C + ch
        IN t.data[(b * t.shape[2] + patch) * t.shape[3] + offset + 1]
  IN [q \in 1..Prod(shape) |-> elem(q - 1)]

PatchSizeDivides ==
  /\ call.images.shape[2] % call.patch_size = 0
  /\ call.images.shape[3] % call.patch_size = 0

ExtractionIsBijection ==
  LET s == call.images.shape
      p == call.patch_size
  IN /\ ret.ok
     /\ ret.shape = <<s[1], (s[2] \div p) * (s[3] \div p), p * p * s[4]>>
     /\ Len(ret.data) = Prod(s)
     /\ Reassemble(ret, s, p) = call.images.data

\* C3 as stated: whenever patch_size divides the height and the width of the
\* image, square or not, PatchExtract returns (H/p) * (W/p) patches of
\* p * p * C values, row-major over the patch grid, and putting them back in
\* that order gives the image.
C3_BijectionAsStated == (IsPE /\ PatchSizeDivides) => ExtractionIsBijection

\* The same for square images only (this one holds).
C3_BijectionOnSquares ==
  (IsPE /\ PatchSizeDivides /\ call.images.shape[2] = call.images.shape[3])
     => ExtractionIsBijection

C3_SquareReached ==
  /\ IsPE /\ call.images.shape = <<2, 4, 4, 2>> /\ call.patch_size = 2
  /\ ret.ok /\ ret.shape = <<2, 4, 8>>
  /\ ret.data[1] = 1 /\ ret.data[3] = 3 /\ ret.data[5] = 9 /\ ret.data[9] = 5

\* C9: for the 32 x 32 x 3 input and every patch_size from 1 to 32 (with an
\* embedding_dim the attention accepts), get_model is built; the sequence
\* PatchExtract returns has num_patches = (32 // patch_size)^2 entries, so the
\* projected patches (batch, num_patches, embedding_dim) and the positional
\* embedding (num_patches, embedding_dim) add position by position; after
\* PatchEmbedding and after each transformer block the tensor is
\* (batch, num_patches, embedding_dim); and each block has two additions,
\* each of two tensors of equal shape.
C9_SequenceShapeInvariant ==
  (IsGM /\ (call.attention_type = "external_attention"
               => call.hp.embedding_dim % call.hp.num_heads = 0)) =>
     LET np == (ImageSize \div call.hp.patch_size) * (ImageSize \div call.hp.patch_size)
         seq == <<call.batch, np, call.hp.embedding_dim>>
     IN /\ ret.ok
        /\ ret.patches[2] = np
        /\ ret.emb.proj = seq
        /\ ret.emb.pos = <<np, call.hp.embedding_dim>>
        /\ ret.emb.shape = seq
        /\ Len(ret.blocks) = call.hp.num_transformer_blocks
        /\ \A i \in 1..Len(ret.blocks) :
              /\ ret.blocks[i].ok
              /\ ret.blocks[i].out = seq
              /\ Cardinality({j \in 1..Len(ret.blocks[i].trace) :
                                 ret.blocks[i].trace[j].op = "add"}) = 2
              /\ \A j \in 1..Len(ret.blocks[i].trace) :
                    ret.blocks[i].trace[j].op = "add" =>
                       /\ ret.blocks[i].trace[j].in = seq
                       /\ ret.blocks[i].trace[j].arg = seq
        /\ ret.out = <<call.batch, NumClasses>>

C9_Witness ==
  /\ IsGM /\ call.hp.patch_size = 2 /\ call.hp.embedding_dim = 64
  /\ call.hp.num_transformer_blocks = 8 /\ call.attention_type = "external_attention"
  /\ ret.ok
  /\ ret.patches = <<call.batch, 256, 12>>
  /\ ret.emb.shape = <<call.batch, 256, 64>>
  /\ Len(ret.blocks) = 8 /\ ret.blocks[8].out = <<call.batch, 256, 64>>

(***************************************************************************)
(* Properties of the double normalization and of dropout.                  *)
(***************************************************************************)
IsDN == call.fn = "double_normalize"

Patches == 1..Len(ret.attn)

Memory == 1..Len(ret.attn[1])

\* C6 as stated: for every pair of entries of the attention map of a head,
\* two patches in the same memory unit included, the entry that is larger
\* after the softmax is the larger one after the division.
C6_OrderKeptAsStated ==
  IsDN =>
    \A n1 \in Patches, n2 \in Patches, m1 \in Memory, m2 \in Memory :
       RatLess(ret.softmax[n2][m2], ret.softmax[n1][m1])
          => RatLess(ret.attn[n2][m2], ret.attn[n1][m1])

\* C6 amended: for every pair of entries of the same patch (one row along
\* the last axis, which the division scales by one factor), the entry that is
\* larger after the softmax is not the smaller one after the division, and
\* equal entries stay equal.
C6_OrderKeptInRow ==
  IsDN =>
    \A n \in Patches, m1 \in Memory, m2 \in Memory :
       /\ RatLess(ret.softmax[n][m2], ret.softmax[n][m1])
             => RatLeq(ret.attn[n][m2], ret.attn[n][m1])
       /\ RatEq(ret.softmax[n][m2], ret.softmax[n][m1])
             => RatEq(ret.attn[n][m2], ret.attn[n][m1])

\* Patch 1 has the larger entry in memory unit 1 after the softmax (2/3
\* against 1/3) and the smaller one after the division, while inside patch 1
\* the order of the two units is kept.
C6_Witness ==
  /\ IsDN
  /\ call.e = <<<<Float(1, 0), Float(1, 0)>>, <<Float(1, 0 - 1), Float(1125899, 0 - 50)>>>>
  /\ RatLess(ret.softmax[2][1], ret.softmax[1][1])
  /\ RatLess(ret.attn[1][1], ret.attn[2][1])
  /\ RatLess(ret.softmax[1][1], ret.softmax[1][2])
  /\ RatLess(ret.attn[1][1], ret.attn[1][2])

\* The tolerance of the comparisons of float32 sums: 1e-5.
TolInv == 10^5

WithinTolerance(t) ==
  /\ RatLeq(Rat(TolInv - 1, TolInv), t)
  /\ RatLeq(t, Rat(TolInv + 1, TolInv))

Close(p, q) ==
  /\ RatLeq(p, RatAdd(q, Rat(1, TolInv)))
  /\ RatLeq(q, RatAdd(p, Rat(1, TolInv)))

\* C7 as stated: after the division (no dropout applied) every row of the
\* attention map sums along the last axis to 1 within the tolerance.
C7_RowsSumToOneAsStated ==
  IsDN => \A n \in Patches : WithinTolerance(FSum(ret.attn[n]))

\* C7 amended: a row whose entries sum to S after the softmax sums after the
\* division to S / (S + 1e-9) within the tolerance, which is 1 within the
\* tolerance whenever S is at least 1e-3.
C7_RowsSumToOne ==
  IsDN =>
    \A n \in Patches :
       LET S == FSum(ret.softmax[n])
           T == FSum(ret.attn[n])
       IN /\ Close(T, RatDiv(S, RatAdd(Eps, S)))
          /\ RatLeq(Rat(1, 1000), S) => WithinTolerance(T)

\* Both rows sum to 1 after the softmax, where 1e-9 + 1 is 1 in float32, and
\* to 1 after the division.
C7_Witness ==
  /\ IsDN
  /\ call.e = <<<<Float(1, 0 - 1), Float(1, 0)>>, <<Float(1, 0), Float(1, 0 - 1)>>>>
  /\ RatEq(FSum(ret.softmax[1]), Rat(1, 1))
  /\ RatEq(FAdd(Eps, FSum(ret.softmax[1])), Rat(1, 1))
  /\ RatEq(FSum(ret.attn[1]), Rat(1, 1))

\* C5 as stated: with attention_dropout = projection_dropout = 0, the
\* forward pass in training mode through the transformer blocks, with the
\* weights and the input it had, is the same whatever the dropout draws: the
\* masks of the pass made are the masks any other draws would have given.
C5_DeterministicAsStated ==
  (IsGM /\ call.hp.attention_dropout = 0 /\ call.hp.projection_dropout = 0 /\ trained > 0)
     => LET ls == ModelDropoutLayers(ret.blocks)
        IN \A u \in [1..DrawCount(ls, Len(ls)) -> UniformDraws] :
              pass.masks = TrainingPass(ls, u)

\* With the two rates 0 the dropout layers they control leave every element
\* as it is in every pass; the two of the MLP of each block keep the rate 0.2.
C5_OnlyMlpRandom ==
  (IsGM /\ call.hp.attention_dropout = 0 /\ call.hp.projection_dropout = 0 /\ ret.ok) =>
     /\ \A b \in 1..Len(ret.blocks) :
           LET ls == DropoutLayers(ret.blocks[b].trace)
               k == Len(ls)
           IN /\ k >= 2
              /\ ls[k - 1].rate = MlpDropRate /\ ls[k].rate = MlpDropRate
              /\ \A i \in 1..(k - 2) : ls[i].rate = 0
     /\ \A i \in 1..Len(pass.masks) : \A j \in 1..Len(pass.masks[i]) :
           ModelDropoutLayers(ret.blocks)[i].rate = 0
              => pass.masks[i][j] = [num |-> 1, den |-> 1]

====
